---- MODULE Spec2Model ----
(***************************************************************************)
(* The lexical scope tree, symbol tables, fresh-name allocator,            *)
(* Substitution store and scope dumper of src/src/scope.ts.                *)
(*                                                                         *)
(* Scopes are JavaScript objects; the model keeps them in an arena         *)
(* (`scopes`), and a reference to a scope is its index in the arena.       *)
(* A JavaScript value is a record: a string is JSString(s), undefined is   *)
(* Undefined, a TypeExpression is a record with a `type` tag.              *)
(***************************************************************************)
EXTENDS Integers, Sequences, FiniteSets, TLC

VARIABLES
    scopes,     \* every Scope object built so far, in creation order
    nameIds,    \* the module-level counters of findAvailableName
    store,      \* one instance of class Substitution (new Substitution())
    last        \* the last call made: its arguments and what it returned or threw

vars == <<scopes, nameIds, store, last>>

---------------------------------------------------------------------------
(* Bounds of the exploration *)

MaxSize == 4    \* scopes, symbols, names, constraints and substitutions made in one run

---------------------------------------------------------------------------
(* JavaScript values *)

Undefined == [jstype |-> "undefined"]
JSString(s) == [jstype |-> "string", value |-> s]
JSBoolean(b) == [jstype |-> "boolean", value |-> b]

\* typeof v
TypeOf(v) == IF "jstype" \in DOMAIN v THEN v.jstype ELSE "object"

\* !v for the values that reach a condition in scope.ts
Falsy(v) == v = Undefined \/ v = JSString("") \/ v = JSBoolean(FALSE)
Truthy(v) == ~Falsy(v)

\* The property names every plain object ({}) inherits from Object.prototype.
ObjectPrototypeKeys ==
    {"constructor", "hasOwnProperty", "isPrototypeOf", "propertyIsEnumerable",
     "toLocaleString", "toString", "valueOf", "__proto__",
     "__defineGetter__", "__defineSetter__", "__lookupGetter__", "__lookupSetter__"}

\* The member of Object.prototype called name (a function or accessor).
InheritedMember(name) == [inherited |-> name]

\* A plain object used as a record (scope.value, scope.type) is the function
\* from its own keys to their values.
EmptyObject == << >>

\* name in obj
In(name, obj) == name \in DOMAIN obj \/ name \in ObjectPrototypeKeys

\* obj[name]
Get(obj, name) ==
    IF name \in DOMAIN obj THEN obj[name]
    ELSE IF name \in ObjectPrototypeKeys THEN InheritedMember(name)
    ELSE Undefined

\* obj[name] = v
Put(obj, name, v) == [k \in DOMAIN obj \cup {name} |-> IF k = name THEN v ELSE obj[k]]

\* A Map object: its entries live in the internal [[MapData]] slot, keyed by
\* SameValueZero (a string by its characters, an object by identity).  A Map
\* the program builds has no own enumerable properties.
NewMap == [mapData |-> << >>]
MapSet(m, k, v) ==
    [mapData |-> [x \in DOMAIN m.mapData \cup {k} |-> IF x = k THEN v ELSE m.mapData[x]]]
MapGet(m, k) == IF k \in DOMAIN m.mapData THEN m.mapData[k] ELSE Undefined
MapHas(m, k) == k \in DOMAIN m.mapData

\* Object.entries(m) of a Map m: the own enumerable string-keyed properties.
ObjectEntries(m) == {}

\* Object.fromEntries(entries), entries a set of <<key, value>> pairs
ObjectFromEntries(entries) ==
    [k \in {e[1] : e \in entries} |-> (CHOOSE e \in entries : e[1] = k)[2]]

---------------------------------------------------------------------------
(* TypeExpression values (src/src/nodes.ts supplies them) *)

NativeKinds == {"string", "number", "boolean"}
NativeType(kind) == [type |-> "NativeType", kind |-> kind]
InferenceRequired(name) == [type |-> "InferenceRequired", name |-> name]
Identifier(name) == [type |-> "Identifier", name |-> name]

---------------------------------------------------------------------------
(* class Substitution extends Map<string, ConstraintType> *)

_getTypeExpressionName(typeExpression) ==
    IF "name" \in DOMAIN typeExpression THEN JSString(typeExpression.name)
    ELSE Undefined

\* const finalKey = typeof key !== "string" ? _getTypeExpressionName(key) : key
finalKey(key) == IF TypeOf(key) # "string" THEN _getTypeExpressionName(key) ELSE key

\* set: the resulting map
Substitution_set(m, key, value) ==
    IF Falsy(finalKey(key)) THEN m ELSE MapSet(m, finalKey(key), value)

Substitution_get(m, key) ==
    IF Falsy(finalKey(key)) THEN Undefined ELSE MapGet(m, finalKey(key))

Substitution_has(m, key) ==
    IF Falsy(finalKey(key)) THEN FALSE ELSE MapHas(m, finalKey(key))

---------------------------------------------------------------------------
(* Scopes and symbols *)

NoScope == 0    \* parent: undefined

ScopeIds == 1..Len(scopes)

\* ValueSymbol / TypeSymbol: { name, type, scope }
Symbol(name, type, scope) == [name |-> name, type |-> type, scope |-> scope]

createNativeTypeSymbol(name, scope) == Symbol(name, NativeType(name), scope)

\* createRootScope seeding string and number only
RootScopeObject_NoBoolean(self) ==
    [parent |-> NoScope,
     children |-> << >>,
     value |-> EmptyObject,
     type |-> [k \in {"string", "number"} |-> createNativeTypeSymbol(k, self)],
     constraints |-> << >>,
     substitutions |-> NewMap]

\* the object literal of createRootScope, after rootScope.type is assigned
RootScopeObject(self) ==
    [parent |-> NoScope,
     children |-> << >>,
     value |-> EmptyObject,
     type |-> [k \in NativeKinds |-> createNativeTypeSymbol(k, self)],
     constraints |-> << >>,
     substitutions |-> NewMap]

\* createScope handing the parent's constraint list to the new scope
ScopeObject_SharedConstraints(parent) ==
    [children |-> << >>,
     parent |-> parent,
     type |-> EmptyObject,
     value |-> EmptyObject,
     constraints |-> IF parent = NoScope THEN << >> ELSE scopes[parent].constraints,
     substitutions |-> NewMap]

\* createScope dropping the parent link
ScopeObject_Parentless(parent) ==
    [children |-> << >>,
     parent |-> NoScope,
     type |-> EmptyObject,
     value |-> EmptyObject,
     constraints |-> << >>,
     substitutions |-> NewMap]

\* the object literal of createScope
ScopeObject(parent) ==
    [children |-> << >>,
     parent |-> parent,
     type |-> EmptyObject,
     value |-> EmptyObject,
     constraints |-> << >>,
     substitutions |-> NewMap]

RECURSIVE findValueSymbol(_, _)
findValueSymbol(name, scope) ==
    IF In(name, scopes[scope].value) THEN Get(scopes[scope].value, name)
    ELSE IF scopes[scope].parent # NoScope THEN findValueSymbol(name, scopes[scope].parent)
    ELSE Undefined

RECURSIVE findTypeSymbol(_, _)
findTypeSymbol(name, scope) ==
    IF In(name, scopes[scope].type) THEN Get(scopes[scope].type, name)
    ELSE IF scopes[scope].parent # NoScope THEN findTypeSymbol(name, scopes[scope].parent)
    ELSE Undefined

\* new Error(`Cannot redeclare variable "${name}"`)
RedeclareError(name) == [thrown |-> "Cannot redeclare variable \"" \o name \o "\""]

Returned(v) == [returned |-> v]

\* `${prefix}${nameIds[prefix]}`
NameFor(prefix, id) == prefix \o ToString(id)

---------------------------------------------------------------------------
(* The inputs the callers draw from *)

ValueNames == {"x", "toString"}
TypeNames == {"x", "t0", "toString"}
Types == {NativeType("number"), NativeType("string")}
Prefixes == {"t", "fn"}
\* what a caller passes to findAvailableName: a prefix, or nothing
PrefixArguments == {JSString(p) : p \in Prefixes} \cup {Undefined}
\* keys and values the solver passes to scope.substitutions
SubstitutionKeys == {JSString("t0"), InferenceRequired("t0"), NativeType("number")}
SubstitutionValues == {NativeType("number")}
\* keys and values passed to the stand-alone Substitution instance
StoreKeys ==
    {JSString("t0"), JSString("t1"), JSString(""),
     InferenceRequired("t0"), Identifier("t0"), InferenceRequired("t1"),
     Identifier(""), NativeType("number")}
StoreValues == {NativeType("number"), NativeType("string")}
ConstraintPairs == {<<InferenceRequired("t0"), NativeType("number")>>}

RECURSIVE SumOver(_, _)
SumOver(f, S) ==
    IF S = {} THEN 0
    ELSE LET x == CHOOSE y \in S : TRUE IN f[x] + SumOver(f, S \ {x})

\* a seeded native type symbol of scope s
IsSeed(s, k) == k \in NativeKinds /\ scopes[s].type[k] = createNativeTypeSymbol(k, s)

\* symbols declared so far through createValueSymbol / createTypeSymbol
NumDeclared ==
    SumOver([s \in ScopeIds |->
                Cardinality(DOMAIN scopes[s].value)
                + Cardinality({k \in DOMAIN scopes[s].type : ~IsSeed(s, k)})],
            ScopeIds)
NumConstraints == SumOver([s \in ScopeIds |-> Len(scopes[s].constraints)], ScopeIds)
NumSubstitutions ==
    SumOver([s \in ScopeIds |-> Cardinality(DOMAIN scopes[s].substitutions.mapData)],
            ScopeIds)

\* how much one run has built: the size every call that builds something adds to
Size ==
    Len(scopes) + NumDeclared + nameIds.t + nameIds.fn + NumConstraints + NumSubstitutions

---------------------------------------------------------------------------
(* The state when the module has been loaded *)

Init ==
    /\ scopes = << >>
    /\ nameIds = [t |-> 0, fn |-> 0]
    /\ store = NewMap
    /\ last = [op |-> "load"]

---------------------------------------------------------------------------
(* Scope construction *)

createRootScope ==
    LET rootScope == Len(scopes) + 1 IN
    /\ scopes' = Append(scopes, RootScopeObject(rootScope))
    /\ last' = [op |-> "createRootScope", result |-> Returned(rootScope)]
    /\ UNCHANGED <<nameIds, store>>

\* createScope without `parent.children.push(scope)`
createScope_NoPush(parent) ==
    /\ scopes' = Append(scopes, ScopeObject(parent))
    /\ last' = [op |-> "createScope", parent |-> parent,
                result |-> Returned(Len(scopes) + 1)]
    /\ UNCHANGED <<nameIds, store>>

\* parent = NoScope: createScope() without an argument
createScope(parent) ==
    LET scope == Len(scopes) + 1 IN
    /\ scopes' =
          IF parent # NoScope
          THEN [Append(scopes, ScopeObject(parent)) EXCEPT
                   ![parent].children = Append(@, scope)]
          ELSE Append(scopes, ScopeObject(parent))
    /\ last' = [op |-> "createScope", parent |-> parent, result |-> Returned(scope)]
    /\ UNCHANGED <<nameIds, store>>

---------------------------------------------------------------------------
(* Symbol declaration *)

\* createValueSymbol without its redeclaration check
createValueSymbol_Unchecked(name, scope, type) ==
    LET symbol == Symbol(name, type, scope) IN
    /\ scopes' = [scopes EXCEPT ![scope].value = Put(@, name, symbol)]
    /\ last' = [op |-> "createValueSymbol", name |-> name, scope |-> scope,
                type |-> type, result |-> Returned(symbol)]
    /\ UNCHANGED <<nameIds, store>>

\* createValueSymbol consulting the scope's own value table only
createValueSymbol_OwnTableOnly(name, scope, type) ==
    LET symbol == Symbol(name, type, scope) IN
    /\ IF In(name, scopes[scope].value)
       THEN /\ last' = [op |-> "createValueSymbol", name |-> name, scope |-> scope,
                        type |-> type, result |-> RedeclareError(name)]
            /\ UNCHANGED scopes
       ELSE /\ scopes' = [scopes EXCEPT ![scope].value = Put(@, name, symbol)]
            /\ last' = [op |-> "createValueSymbol", name |-> name, scope |-> scope,
                        type |-> type, result |-> Returned(symbol)]
    /\ UNCHANGED <<nameIds, store>>

\* createValueSymbol looking the name up in the type namespace
createValueSymbol_AnyNamespace(name, scope, type) ==
    LET exists == findTypeSymbol(name, scope)
        symbol == Symbol(name, type, scope)
    IN
    /\ IF Truthy(exists)
       THEN /\ last' = [op |-> "createValueSymbol", name |-> name, scope |-> scope,
                        type |-> type, result |-> RedeclareError(name)]
            /\ UNCHANGED scopes
       ELSE /\ scopes' = [scopes EXCEPT ![scope].value = Put(@, name, symbol)]
            /\ last' = [op |-> "createValueSymbol", name |-> name, scope |-> scope,
                        type |-> type, result |-> Returned(symbol)]
    /\ UNCHANGED <<nameIds, store>>

createValueSymbol(name, scope, type) ==
    LET exists == findValueSymbol(name, scope)
        symbol == Symbol(name, type, scope)
    IN
    /\ IF Truthy(exists)
       THEN /\ last' = [op |-> "createValueSymbol", name |-> name, scope |-> scope,
                        type |-> type, result |-> RedeclareError(name)]
            /\ UNCHANGED scopes
       ELSE /\ scopes' = [scopes EXCEPT ![scope].value = Put(@, name, symbol)]
            /\ last' = [op |-> "createValueSymbol", name |-> name, scope |-> scope,
                        type |-> type, result |-> Returned(symbol)]
    /\ UNCHANGED <<nameIds, store>>

\* createTypeSymbol consulting the scope's own type table only
TypeSymbolOutcome_OwnTableOnly(name, scope, type) ==
    LET symbol == Symbol(name, type, scope) IN
    IF In(name, scopes[scope].type)
    THEN [scopes |-> scopes, result |-> RedeclareError(name)]
    ELSE [scopes |-> [scopes EXCEPT ![scope].type = Put(@, name, symbol)],
          result |-> Returned(symbol)]

\* what createTypeSymbol(name, scope, type) does: the scopes afterwards and
\* what it returns or throws
TypeSymbolOutcome(name, scope, type) ==
    LET exists == findTypeSymbol(name, scope)
        symbol == Symbol(name, type, scope)
    IN
    IF Truthy(exists)
    THEN [scopes |-> scopes, result |-> RedeclareError(name)]
    ELSE [scopes |-> [scopes EXCEPT ![scope].type = Put(@, name, symbol)],
          result |-> Returned(symbol)]

createTypeSymbol(name, scope, type) ==
    LET outcome == TypeSymbolOutcome(name, scope, type) IN
    /\ scopes' = outcome.scopes
    /\ last' = [op |-> "createTypeSymbol", name |-> name, scope |-> scope,
                type |-> type, result |-> outcome.result]
    /\ UNCHANGED <<nameIds, store>>

\* findAvailableName(prefix): the name it returns and the counters afterwards
AvailableName(prefix) == NameFor(prefix, nameIds[prefix])
\* findAvailableName without `nameIds[prefix] += 1`
AdvancedNameIds_Stuck(prefix) == nameIds

AdvancedNameIds(prefix) == [nameIds EXCEPT ![prefix] = @ + 1]

\* the parameter `prefix` when the default is "fn"
DefaultedPrefix_Fn(argument) ==
    IF argument = Undefined THEN "fn" ELSE argument.value

\* the parameter `prefix = "t"`: the default applies when the argument is
\* omitted or undefined
DefaultedPrefix(argument) ==
    IF argument = Undefined THEN "t" ELSE argument.value

\* findAvailableName(argument); argument is Undefined for findAvailableName()
findAvailableName(argument) ==
    /\ nameIds' = AdvancedNameIds(DefaultedPrefix(argument))
    /\ last' = [op |-> "findAvailableName", argument |-> argument,
                result |-> Returned(JSString(AvailableName(DefaultedPrefix(argument))))]
    /\ UNCHANGED <<scopes, store>>

createTypeVariable(scope) ==
    LET name == AvailableName(DefaultedPrefix(Undefined))
        typeExpr == InferenceRequired(name)
        outcome == TypeSymbolOutcome(name, scope, typeExpr)
    IN
    /\ nameIds' = AdvancedNameIds(DefaultedPrefix(Undefined))
    /\ scopes' = outcome.scopes
    /\ last' = [op |-> "createTypeVariable", scope |-> scope,
                result |-> IF "thrown" \in DOMAIN outcome.result
                           THEN outcome.result ELSE Returned(typeExpr)]
    /\ UNCHANGED store

---------------------------------------------------------------------------
(* What the driver and the solver do to a scope's lists *)

\* scope.constraints.push([left, right])
PushConstraint(scope, pair) ==
    /\ scopes' = [scopes EXCEPT ![scope].constraints = Append(@, pair)]
    /\ last' = [op |-> "constraints.push", scope |-> scope, pair |-> pair]
    /\ UNCHANGED <<nameIds, store>>

\* scope.substitutions.set(key, value): scope.substitutions is the object
\* createRootScope / createScope built with `new Map()`, so the call runs
\* Map.prototype.set
ScopeSubstitutionsSet(scope, key, value) ==
    /\ scopes' = [scopes EXCEPT ![scope].substitutions = MapSet(@, key, value)]
    /\ last' = [op |-> "substitutions.set", scope |-> scope, key |-> key,
                value |-> value]
    /\ UNCHANGED <<nameIds, store>>

---------------------------------------------------------------------------
(* Calls on the stand-alone instance of class Substitution *)

StoreSet(key, value) ==
    /\ store' = Substitution_set(store, key, value)
    /\ last' = [op |-> "Substitution.set", key |-> key, value |-> value]
    /\ UNCHANGED <<scopes, nameIds>>

StoreGet(key) ==
    /\ last' = [op |-> "Substitution.get", key |-> key,
                result |-> Returned(Substitution_get(store, key))]
    /\ UNCHANGED <<scopes, nameIds, store>>

StoreHas(key) ==
    /\ last' = [op |-> "Substitution.has", key |-> key,
                result |-> Returned(JSBoolean(Substitution_has(store, key)))]
    /\ UNCHANGED <<scopes, nameIds, store>>

---------------------------------------------------------------------------
(* dumpScope *)

\* dumpNode of src/src/ast.ts: the serialized form of a type expression
dumpNode(node) == [dumped |-> node]

DumpSymbolEntries(table) ==
    {<<name, [name |-> table[name].name,
              type |-> dumpNode(table[name].type),
              scope |-> "[omitted]"]>> : name \in DOMAIN table}

RECURSIVE dumpScope(_)
RECURSIVE dumpScopeArray(_)

\* dumpScope of a single scope
dumpScope(scope) ==
    LET s == scopes[scope]
        valueEntries == DumpSymbolEntries(s.value)
        typeEntries == DumpSymbolEntries(s.type)
        substitutionsEntries ==
            {<<e[1], dumpNode(e[2])>> : e \in ObjectEntries(s.substitutions)}
    IN
    [parent |-> IF s.parent # NoScope THEN "[omitted]" ELSE "[]",
     value |-> ObjectFromEntries(valueEntries),
     type |-> ObjectFromEntries(typeEntries),
     constraints |-> [i \in 1..Len(s.constraints) |->
                         <<dumpNode(s.constraints[i][1]), dumpNode(s.constraints[i][2])>>],
     substitutions |-> ObjectFromEntries(substitutionsEntries),
     children |-> dumpScopeArray(s.children)]

\* a dump that stops at the first level: only the first scope of the list
dumpScopeArray_FirstOnly(list) == [i \in 1..(IF Len(list) > 0 THEN 1 ELSE 0) |-> dumpScope(list[i])]

\* dumpScope of an array of scopes, and scope.children.map((cs) => dumpScope(cs))
dumpScopeArray(list) == [i \in 1..Len(list) |-> dumpScope(list[i])]

CallDumpScope(scope) ==
    /\ last' = [op |-> "dumpScope", scope |-> scope, result |-> Returned(dumpScope(scope))]
    /\ UNCHANGED <<scopes, nameIds, store>>

---------------------------------------------------------------------------
(* The scope system driven by a type checker *)

\* room left to build something more
Room == Size < MaxSize

Next ==
    \/ Room /\ createRootScope
    \/ Room /\ \E parent \in ScopeIds \cup {NoScope} : createScope(parent)
    \/ Room /\ \E name \in ValueNames, scope \in ScopeIds, type \in Types :
                  createValueSymbol(name, scope, type)
    \/ Room /\ \E name \in TypeNames, scope \in ScopeIds, type \in Types :
                  createTypeSymbol(name, scope, type)
    \/ Room /\ \E scope \in ScopeIds : createTypeVariable(scope)
    \/ Room /\ \E argument \in PrefixArguments : findAvailableName(argument)
    \/ Room /\ \E scope \in ScopeIds, pair \in ConstraintPairs :
                  PushConstraint(scope, pair)
    \/ Room /\ \E scope \in ScopeIds, key \in SubstitutionKeys,
                     value \in SubstitutionValues :
                  ScopeSubstitutionsSet(scope, key, value)
    \/ \E scope \in ScopeIds : CallDumpScope(scope)

Spec == Init /\ [][Next]_vars

(* The Substitution class used on its own *)

StoreNext ==
    \/ \E key \in StoreKeys, value \in StoreValues : StoreSet(key, value)
    \/ \E key \in StoreKeys : StoreGet(key)
    \/ \E key \in StoreKeys : StoreHas(key)

StoreSpec == Init /\ [][StoreNext]_vars

---------------------------------------------------------------------------
(* Vocabulary of the properties *)

RECURSIVE Ancestors(_)
\* the proper ancestors of a scope: its parent, its parent's parent, ...
Ancestors(s) ==
    IF scopes[s].parent = NoScope THEN {}
    ELSE {scopes[s].parent} \cup Ancestors(scopes[s].parent)

SelfAndAncestors(s) == {s} \cup Ancestors(s)

Threw(call) == "thrown" \in DOMAIN call.result
ReturnedFrom(call) == "returned" \in DOMAIN call.result

\* names that are not members of Object.prototype
OrdinaryName(n) == n \notin ObjectPrototypeKeys

---------------------------------------------------------------------------
(* C1: once a name is declared in a scope's value (type) table, every later
   createValueSymbol (createTypeSymbol) of that name on that scope throws the
   redeclaration error, whatever type it passes, and the table keeps the
   first symbol. *)
C1_RedeclarationRejected ==
    [][\A s \in ScopeIds :
          /\ \A n \in DOMAIN scopes[s].value :
                /\ n \in DOMAIN scopes'[s].value
                /\ scopes'[s].value[n] = scopes[s].value[n]
                /\ (last'.op = "createValueSymbol" /\ last'.scope = s /\ last'.name = n)
                      => last'.result = RedeclareError(n)
          /\ \A n \in DOMAIN scopes[s].type :
                /\ n \in DOMAIN scopes'[s].type
                /\ scopes'[s].type[n] = scopes[s].type[n]
                /\ (last'.op = "createTypeSymbol" /\ last'.scope = s /\ last'.name = n)
                      => last'.result = RedeclareError(n)]_vars

\* a second declaration with another type has been rejected and the first
\* symbol is still in the table
C1_Witness ==
    /\ last.op = "createValueSymbol"
    /\ Threw(last)
    /\ last.name \in DOMAIN scopes[last.scope].value
    /\ scopes[last.scope].value[last.name].type # last.type

C1_WitnessType ==
    /\ last.op = "createTypeSymbol"
    /\ Threw(last)
    /\ last.name \in DOMAIN scopes[last.scope].type
    /\ scopes[last.scope].type[last.name].type # last.type

---------------------------------------------------------------------------
(* C2: shadowing is legal: createValueSymbol(n, s, t) (createTypeSymbol)
   throws only when s's own table already binds n, whatever the ancestors of
   s declare.  A call that threw changed nothing, so the binding that made
   it throw is still in s's own table.  Stated for the names no plain object
   inherits, where only declarations decide the outcome. *)
C2_ShadowingLegal ==
    /\ (last.op = "createValueSymbol" /\ Threw(last) /\ OrdinaryName(last.name))
          => last.name \in DOMAIN scopes[last.scope].value
    /\ (last.op = "createTypeSymbol" /\ Threw(last) /\ OrdinaryName(last.name))
          => last.name \in DOMAIN scopes[last.scope].type

---------------------------------------------------------------------------
(* C3: createValueSymbol(n, s, t) (createTypeSymbol) throws the redeclaration
   error whenever s or an ancestor of s already binds n in that namespace,
   and then no scope is changed; when no such binding exists the symbol
   {name n, type t, scope s} is stored in s's own table and returned. *)
C3_DeclareStep(call, table) ==
    LET n == call.name
        s == call.scope
        symbol == Symbol(n, call.type, s)
        bound == \E a \in SelfAndAncestors(s) : n \in DOMAIN scopes[a][table]
    IN
    IF bound
    THEN call.result = RedeclareError(n) /\ scopes' = scopes
    ELSE /\ call.result = Returned(symbol)
         /\ scopes' = [scopes EXCEPT ![s][table] = Put(@, n, symbol)]

C3_DeclareOrReject ==
    [][/\ last'.op = "createValueSymbol" => C3_DeclareStep(last', "value")
       /\ last'.op = "createTypeSymbol" => C3_DeclareStep(last', "type")]_vars

\* C3 for the names no plain object inherits
C3_OrdinaryNames ==
    [][/\ (last'.op = "createValueSymbol" /\ OrdinaryName(last'.name))
             => C3_DeclareStep(last', "value")
       /\ (last'.op = "createTypeSymbol" /\ OrdinaryName(last'.name))
             => C3_DeclareStep(last', "type")]_vars

---------------------------------------------------------------------------
(* C4: findValueSymbol(n, s) (findTypeSymbol) returns s's own binding of n
   when s has one, otherwise the binding of the nearest ancestor of s that
   has one, otherwise not-found; the symbol returned is owned by s or by an
   ancestor of s. *)

\* the scope among s and its ancestors that binds n and is nearest to s
NearestBinder(binders) == CHOOSE a \in binders : binders \ {a} \subseteq Ancestors(a)

C4_Expected(n, s, table) ==
    LET binders == {a \in SelfAndAncestors(s) : n \in DOMAIN scopes[a][table]} IN
    IF binders = {} THEN Undefined ELSE scopes[NearestBinder(binders)][table][n]

C4_LookupOf(n, s, found, table) ==
    /\ found = C4_Expected(n, s, table)
    /\ found # Undefined => (found.name = n /\ found.scope \in SelfAndAncestors(s))

C4_LexicalLookup ==
    \A s \in ScopeIds :
       /\ \A n \in ValueNames : C4_LookupOf(n, s, findValueSymbol(n, s), "value")
       /\ \A n \in TypeNames \cup NativeKinds :
             C4_LookupOf(n, s, findTypeSymbol(n, s), "type")

\* C4 for the names no plain object inherits
C4_OrdinaryNames ==
    \A s \in ScopeIds :
       /\ \A n \in {m \in ValueNames : OrdinaryName(m)} :
             C4_LookupOf(n, s, findValueSymbol(n, s), "value")
       /\ \A n \in {m \in TypeNames \cup NativeKinds : OrdinaryName(m)} :
             C4_LookupOf(n, s, findTypeSymbol(n, s), "type")

---------------------------------------------------------------------------
(* C5: the names returned by successive createTypeVariable calls are
   pairwise distinct, and right after a call createTypeVariable(s) returned
   e, findTypeSymbol(e.name, s) is the type symbol under e.name in s's own
   type table, and its type is e. *)

\* the names createTypeVariable has returned so far: each is registered as a
\* type symbol whose type is the type variable of that name
TypeKeys == UNION {DOMAIN scopes[s].type : s \in ScopeIds}

MintedNames ==
    {n \in TypeKeys :
        \E s \in ScopeIds :
           n \in DOMAIN scopes[s].type /\ scopes[s].type[n].type = InferenceRequired(n)}

C5_FreshTypeVariable ==
    [][(last'.op = "createTypeVariable" /\ ReturnedFrom(last')) =>
          /\ last'.result.returned.type = "InferenceRequired"
          /\ last'.result.returned.name \notin MintedNames
          /\ last'.result.returned.name \in DOMAIN scopes'[last'.scope].type
          /\ \A s \in ScopeIds, n \in TypeKeys' :
                (s = last'.scope /\ n = last'.result.returned.name) =>
                   /\ findTypeSymbol(n, s)' = scopes'[s].type[n]
                   /\ scopes'[s].type[n] = Symbol(n, last'.result.returned, s)]_vars

\* two type variables have been returned, the second in a scope that can
\* see the first
C5_Witness ==
    /\ last.op = "createTypeVariable"
    /\ ReturnedFrom(last)
    /\ \E n \in MintedNames :
          /\ n # last.result.returned.name
          /\ findTypeSymbol(n, last.scope) # Undefined
    /\ findTypeSymbol(last.result.returned.name, last.scope).type = last.result.returned

---------------------------------------------------------------------------
(* C6: a Substitution store normalizes its keys: after set(k, v) with a
   TypeExpression k that carries the name n, get(n), get(k') for every
   TypeExpression k' of name n, and has(n) see v; after set(n, v) with the
   string n, get(k) sees v for every TypeExpression k of name n; set with a
   TypeExpression that carries no name leaves the map as it was, and get /
   has with that key answer not-found / false. *)

HasName(k) == TypeOf(k) = "object" /\ "name" \in DOMAIN k
Nameless(k) == TypeOf(k) = "object" /\ "name" \notin DOMAIN k
\* the name a key stands for: the string itself, or the name the expression carries
KeyName(k) == IF TypeOf(k) = "string" THEN k.value ELSE k.name
\* the keys of the input set that stand for the name n
KeysNamed(n) == {k \in StoreKeys : ~Nameless(k) /\ KeyName(k) = n}

C6_AfterSet(key, value) ==
    IF Nameless(key)
    THEN /\ store' = store
         /\ Substitution_get(store', key) = Undefined
         /\ ~Substitution_has(store', key)
    ELSE /\ \A k \in KeysNamed(KeyName(key)) : Substitution_get(store', k) = value
         /\ Substitution_has(store', JSString(KeyName(key)))

C6_KeyNormalization ==
    [][last'.op = "Substitution.set" =>
          \A key \in StoreKeys, value \in StoreValues :
             (key = last'.key /\ value = last'.value) => C6_AfterSet(key, value)]_vars

\* C6 for the keys whose name is not the empty string
C6_NonEmptyNames ==
    [][last'.op = "Substitution.set" =>
          \A key \in StoreKeys, value \in StoreValues :
             (key = last'.key /\ value = last'.value
                /\ (Nameless(key) \/ KeyName(key) # "")) => C6_AfterSet(key, value)]_vars

---------------------------------------------------------------------------
(* C7: the substitutions store of a scope normalizes its keys: after
   scope.substitutions.set(k, v) with a TypeExpression k of name n,
   scope.substitutions.get(n) is v and has(n) is true; set with a
   TypeExpression that carries no name adds no entry. *)
C7_ScopeStoreNormalizes ==
    last.op = "substitutions.set" =>
       LET m == scopes[last.scope].substitutions IN
       /\ HasName(last.key) =>
             /\ MapGet(m, JSString(last.key.name)) = last.value
             /\ MapHas(m, JSString(last.key.name))
       /\ Nameless(last.key) => ~MapHas(m, last.key)

---------------------------------------------------------------------------
(* C8: dumpScope(s) renders the substitution map of s: the dump's
   substitutions object has, for every entry (n, v) of s.substitutions, the
   serialized v under n, and nothing else. *)
C8_DumpRendersSubstitutions ==
    last.op = "dumpScope" =>
       LET entries == scopes[last.scope].substitutions.mapData
           dumped == last.result.returned.substitutions
           names == {KeyName(k) : k \in {x \in DOMAIN entries : ~Nameless(x)}}
       IN
       /\ DOMAIN dumped = names
       /\ \A k \in DOMAIN entries :
             TypeOf(k) = "string" => dumped[k.value] = dumpNode(entries[k])

---------------------------------------------------------------------------
(* C9: dumpScope(s) holds only a placeholder for the parent ("[omitted]"
   when s has a parent, "[]" when it has none) and for each symbol's owning
   scope, and its children list has exactly one full dump per child of s, in
   insertion order, down to every descendant, each with its value and type
   tables. *)

\* a dumped symbol table: the keys of the table, each symbol with its name,
\* its serialized type and a placeholder for its scope
C9_TableDumped(dumped, table) ==
    /\ DOMAIN dumped = DOMAIN table
    /\ \A n \in DOMAIN table :
          /\ DOMAIN dumped[n] = {"name", "type", "scope"}
          /\ dumped[n].name = table[n].name
          /\ dumped[n].type = dumpNode(table[n].type)
          /\ dumped[n].scope = "[omitted]"

RECURSIVE C9_DumpOf(_, _)
C9_DumpOf(dump, s) ==
    /\ DOMAIN dump = {"parent", "value", "type", "constraints", "substitutions", "children"}
    /\ dump.parent = (IF scopes[s].parent = NoScope THEN "[]" ELSE "[omitted]")
    /\ C9_TableDumped(dump.value, scopes[s].value)
    /\ C9_TableDumped(dump.type, scopes[s].type)
    /\ Len(dump.children) = Len(scopes[s].children)
    /\ \A i \in 1..Len(scopes[s].children) :
          C9_DumpOf(dump.children[i], scopes[s].children[i])

C9_DumpIsAcyclicAndFull ==
    last.op = "dumpScope" => C9_DumpOf(last.result.returned, last.scope)

\* the dump of a scope that has a parent and a child, the child holding a symbol
C9_Witness ==
    /\ last.op = "dumpScope"
    /\ scopes[last.scope].parent # NoScope
    /\ last.result.returned.parent = "[omitted]"
    /\ \E i \in 1..Len(scopes[last.scope].children) :
          /\ DOMAIN scopes[scopes[last.scope].children[i]].value # {}
          /\ DOMAIN last.result.returned.children[i].value # {}

---------------------------------------------------------------------------
(* C10: whatever ran before, createRootScope() returns a scope with no
   parent and no children, whose type table has exactly the keys string,
   number and boolean, each bound to the NativeType of that kind and owned by
   the new root, and whose value table, constraint list and substitution map
   are empty. *)
C10_RootScopeSeeded ==
    last.op = "createRootScope" =>
       LET root == scopes[last.result.returned] IN
       /\ root.parent = NoScope
       /\ root.children = << >>
       /\ DOMAIN root.type = {"string", "number", "boolean"}
       /\ \A k \in DOMAIN root.type :
             /\ root.type[k].name = k
             /\ root.type[k].type = [type |-> "NativeType", kind |-> k]
             /\ root.type[k].scope = last.result.returned
       /\ DOMAIN root.value = {}
       /\ root.constraints = << >>
       /\ DOMAIN root.substitutions.mapData = {}

\* a root scope built after another scope has been given symbols and a name
\* has been handed out
C10_Witness ==
    /\ last.op = "createRootScope"
    /\ last.result.returned > 1
    /\ nameIds.t > 0
    /\ \E s \in ScopeIds : DOMAIN scopes[s].type \ NativeKinds # {}

---------------------------------------------------------------------------
(* C11: every scope that has a parent appears exactly once in that parent's
   children list, every element c of a scope p's children has c.parent = p,
   and following parent links from any scope reaches a parentless scope in
   finitely many steps. *)

RECURSIVE C11_Up(_, _)
\* the scope k parent links above s, NoScope when the chain ends earlier
C11_Up(s, k) ==
    IF k = 0 \/ s = NoScope THEN s ELSE C11_Up(scopes[s].parent, k - 1)

C11_ParentChildConsistent ==
    \A s \in ScopeIds :
       /\ scopes[s].parent # NoScope =>
             /\ scopes[s].parent \in ScopeIds
             /\ Cardinality({i \in 1..Len(scopes[scopes[s].parent].children) :
                                scopes[scopes[s].parent].children[i] = s}) = 1
       /\ \A i \in 1..Len(scopes[s].children) :
             /\ scopes[s].children[i] \in ScopeIds
             /\ scopes[scopes[s].children[i]].parent = s
       /\ \E k \in 0..(Len(scopes) - 1) :
             /\ C11_Up(s, k) # NoScope
             /\ scopes[C11_Up(s, k)].parent = NoScope

\* a scope with two children, one of which has a child of its own or a symbol
C11_Witness ==
    /\ last.op = "createScope"
    /\ last.parent # NoScope
    /\ Len(scopes[last.parent].children) >= 2
    /\ \E s \in ScopeIds : DOMAIN scopes[s].value # {}

---------------------------------------------------------------------------
(* C12: the only scope with no parent is the scope createRootScope returned,
   and its type table binds string, number and boolean; no scope produced by
   createScope is parentless and unseeded. *)

Parentless == {s \in ScopeIds : scopes[s].parent = NoScope}

\* the type table of s binds string, number and boolean to their native types
Seeded(s) ==
    \A k \in NativeKinds :
       k \in DOMAIN scopes[s].type /\ scopes[s].type[k].type = NativeType(k)

C12_OnlyRootParentless ==
    /\ Cardinality(Parentless) <= 1
    /\ \A s \in Parentless : Seeded(s)
    /\ last.op = "createScope" => last.result.returned \notin Parentless

(* C12 as amended: a scope is parentless exactly when createRootScope built
   it or createScope was called without a parent.  A scope createRootScope
   returned binds string, number and boolean from then on; a scope
   createScope returned has the parent it was given, undefined included, and
   starts with an empty type table; no call changes the parent of a scope. *)
C12_ParentlessScopes ==
    [][/\ \A s \in ScopeIds :
             /\ scopes'[s].parent = scopes[s].parent
             /\ Seeded(s) => Seeded(s)'
       /\ last'.op = "createRootScope" =>
             /\ Len(scopes') = Len(scopes) + 1
             /\ last'.result.returned = Len(scopes')
             /\ scopes'[Len(scopes')].parent = NoScope
             /\ \A k \in NativeKinds :
                   /\ k \in DOMAIN scopes'[Len(scopes')].type
                   /\ scopes'[Len(scopes')].type[k].type = NativeType(k)
       /\ last'.op = "createScope" =>
             /\ Len(scopes') = Len(scopes) + 1
             /\ last'.result.returned = Len(scopes')
             /\ scopes'[Len(scopes')].parent = last'.parent
             /\ DOMAIN scopes'[Len(scopes')].type = {}
       /\ last'.op \notin {"createRootScope", "createScope"} =>
             Len(scopes') = Len(scopes)]_vars

\* createScope() has just returned a parentless, unseeded scope next to a
\* seeded root that has a child
C12_Witness ==
    /\ last.op = "createScope"
    /\ last.parent = NoScope
    /\ last.result.returned \in Parentless
    /\ ~Seeded(last.result.returned)
    /\ \E r \in Parentless : Seeded(r) /\ Len(scopes[r].children) > 0

---------------------------------------------------------------------------
(* C13: the value and type namespaces are disjoint.  A createValueSymbol call
   leaves every type table and every findTypeSymbol result as they were, a
   createTypeSymbol call leaves every value table and every findValueSymbol
   result as they were, and whether a declaration throws depends on what the
   lookup in its own namespace finds alone: a binding of the name in the
   other namespace never makes it fail. *)

C13_Names == ValueNames \cup TypeNames \cup NativeKinds

C13_NamespacesDisjoint ==
    [][\A s \in ScopeIds, n \in C13_Names :
          /\ last'.op = "createValueSymbol" =>
                /\ scopes'[s].type = scopes[s].type
                /\ findTypeSymbol(n, s)' = findTypeSymbol(n, s)
                /\ (last'.name = n /\ last'.scope = s) =>
                      (Threw(last') <=> Truthy(findValueSymbol(n, s)))
          /\ last'.op = "createTypeSymbol" =>
                /\ scopes'[s].value = scopes[s].value
                /\ findValueSymbol(n, s)' = findValueSymbol(n, s)
                /\ (last'.name = n /\ last'.scope = s) =>
                      (Threw(last') <=> Truthy(findTypeSymbol(n, s)))]_vars

\* a value declaration has succeeded for a name that an ancestor binds as a
\* type
C13_Witness ==
    /\ last.op = "createValueSymbol"
    /\ ReturnedFrom(last)
    /\ last.name \in DOMAIN scopes[last.scope].value
    /\ \E a \in Ancestors(last.scope) : last.name \in DOMAIN scopes[a].type

---------------------------------------------------------------------------
(* C14: findAvailableName keeps one counter per prefix, both starting at 0.
   A call with prefix p returns p followed by the current value of p's
   counter and advances that counter by one, leaving the other prefix's
   counter alone; a call with no argument does so for prefix "t"; no other
   call but createTypeVariable, which makes the no-argument call, changes a
   counter, so counters never decrease and the name returned differs from
   every name returned before. *)

C14_PerPrefixCounters ==
    /\ nameIds = [t |-> 0, fn |-> 0]
    /\ [][\A p \in Prefixes :
             LET other == CHOOSE q \in Prefixes : q # p IN
             /\ (last'.op = "findAvailableName"
                   /\ last'.argument \in {JSString(p)} \cup
                                         (IF p = "t" THEN {Undefined} ELSE {})) =>
                   /\ last'.result = Returned(JSString(NameFor(p, nameIds[p])))
                   /\ nameIds'[p] = nameIds[p] + 1
                   /\ nameIds'[other] = nameIds[other]
                   /\ \A q \in Prefixes : \A j \in 0..(nameIds[q] - 1) :
                         NameFor(q, j) # last'.result.returned.value
             /\ (last'.op = "createTypeVariable" /\ p = "t") =>
                   /\ nameIds'[p] = nameIds[p] + 1
                   /\ nameIds'[other] = nameIds[other]
             /\ last'.op \notin {"findAvailableName", "createTypeVariable"} =>
                   nameIds'[p] = nameIds[p]
             /\ nameIds'[p] >= nameIds[p]]_vars

\* the second "t" name was returned by a call without argument, after a call
\* with prefix "fn"
C14_Witness ==
    /\ last.op = "findAvailableName"
    /\ last.argument = Undefined
    /\ last.result = Returned(JSString("t1"))
    /\ nameIds = [t |-> 2, fn |-> 1]

---------------------------------------------------------------------------
(* C15: each scope owns its constraint list and its substitution map.  A
   scope created by createScope or createRootScope starts with an empty list
   and an empty map; appending a constraint to a scope, writing a
   substitution into it or declaring a symbol in it changes nothing in any
   other scope, and creating a scope changes no existing scope's
   constraints, substitutions, value table or type table. *)

C15_OwnerOps ==
    {"constraints.push", "substitutions.set", "createValueSymbol",
     "createTypeSymbol", "createTypeVariable"}

C15_ScopesIsolated ==
    [][/\ \A new \in ScopeIds' \ ScopeIds :
             /\ last'.op \in {"createScope", "createRootScope"}
             /\ scopes'[new].constraints = << >>
             /\ scopes'[new].substitutions = NewMap
       /\ \A s \in ScopeIds :
             /\ (last'.op \in C15_OwnerOps /\ s # last'.scope) =>
                   scopes'[s] = scopes[s]
             /\ (last'.op = "constraints.push" /\ s = last'.scope) =>
                   /\ scopes'[s].constraints = Append(scopes[s].constraints, last'.pair)
                   /\ scopes'[s].substitutions = scopes[s].substitutions
                   /\ scopes'[s].value = scopes[s].value
                   /\ scopes'[s].type = scopes[s].type
             /\ (last'.op = "substitutions.set" /\ s = last'.scope) =>
                   /\ scopes'[s].constraints = scopes[s].constraints
                   /\ scopes'[s].value = scopes[s].value
                   /\ scopes'[s].type = scopes[s].type
             /\ (last'.op \in {"createValueSymbol", "createTypeSymbol",
                               "createTypeVariable"} /\ s = last'.scope) =>
                   /\ scopes'[s].constraints = scopes[s].constraints
                   /\ scopes'[s].substitutions = scopes[s].substitutions
             /\ last'.op \in {"createScope", "createRootScope"} =>
                   /\ scopes'[s].constraints = scopes[s].constraints
                   /\ scopes'[s].substitutions = scopes[s].substitutions
                   /\ scopes'[s].value = scopes[s].value
                   /\ scopes'[s].type = scopes[s].type]_vars

\* a constraint has been appended to a scope that has a parent and a sibling,
\* and their lists are still empty
C15_Witness ==
    /\ last.op = "constraints.push"
    /\ scopes[last.scope].parent # NoScope
    /\ Len(scopes[scopes[last.scope].parent].children) >= 2
    /\ Len(scopes[last.scope].constraints) = 1
    /\ \A s \in ScopeIds \ {last.scope} : scopes[s].constraints = << >>

\* a substitution has been written into a child scope created after its
\* parent received a constraint
C15_WitnessNew ==
    /\ last.op = "substitutions.set"
    /\ scopes[last.scope].parent # NoScope
    /\ scopes[scopes[last.scope].parent].constraints # << >>
    /\ scopes[last.scope].constraints = << >>

---------------------------------------------------------------------------
(* C16: lookup results are stable.  Whatever findValueSymbol(n, s) or
   findTypeSymbol(n, s) finds in some state, it finds the same thing, with
   the same name, type and owning scope, after every further call,
   successful or failing, on any scope: nothing visible from s is removed,
   replaced or shadowed. *)

C16_TypeNames ==
    TypeNames \cup NativeKinds \cup {NameFor("t", j) : j \in 0..MaxSize}

C16_LookupStable ==
    [][\A s \in ScopeIds :
          /\ \A n \in ValueNames :
                findValueSymbol(n, s) # Undefined =>
                   findValueSymbol(n, s)' = findValueSymbol(n, s)
          /\ \A n \in C16_TypeNames :
                findTypeSymbol(n, s) # Undefined =>
                   findTypeSymbol(n, s)' = findTypeSymbol(n, s)]_vars

\* a declaration in a scope has just been rejected, and the lookup from that
\* scope still finds the symbol its ancestor declared
C16_Witness ==
    /\ last.op = "createTypeSymbol"
    /\ Threw(last)
    /\ last.name \notin DOMAIN scopes[last.scope].type
    /\ \E a \in Ancestors(last.scope) :
          /\ last.name \in DOMAIN scopes[a].type
          /\ findTypeSymbol(last.name, last.scope) = scopes[a].type[last.name]
          /\ scopes[a].type[last.name].scope = a

---------------------------------------------------------------------------
(* C17: for every name, the names a plain object inherits included, when
   neither a scope nor any of its ancestors has declared the name in a
   namespace, the lookup of that name from the scope reports not-found and a
   declaration of it in the scope succeeds. *)

C17_Declared(n, s, table) ==
    \E a \in SelfAndAncestors(s) : n \in DOMAIN scopes[a][table]

C17_UndeclaredNotFound ==
    /\ \A s \in ScopeIds :
          /\ \A n \in ValueNames :
                ~C17_Declared(n, s, "value") => findValueSymbol(n, s) = Undefined
          /\ \A n \in TypeNames \cup NativeKinds :
                ~C17_Declared(n, s, "type") => findTypeSymbol(n, s) = Undefined
    /\ (last.op = "createValueSymbol" /\ Threw(last)) =>
          C17_Declared(last.name, last.scope, "value")
    /\ (last.op = "createTypeSymbol" /\ Threw(last)) =>
          C17_Declared(last.name, last.scope, "type")

---------------------------------------------------------------------------
(* C18: Substitution.set(key, v) with a string key stores v under that very
   string, the empty string included, and a TypeExpression that carries a
   name field is usable as a key also when the name is the empty string:
   right after the call get(key) returns v and has(key) is true. *)
C18_EveryNamedKeyStored ==
    (last.op = "Substitution.set" /\ ~Nameless(last.key)) =>
       /\ Substitution_get(store, last.key) = last.value
       /\ Substitution_has(store, last.key)

---------------------------------------------------------------------------
(* C19: in every reachable state no name is bound in the same namespace both
   in a scope and in one of its ancestors, whatever the order of the
   declarations. *)
C19_OneBinderPerPath ==
    \A s \in ScopeIds : \A a \in Ancestors(s) :
       /\ DOMAIN scopes[s].value \cap DOMAIN scopes[a].value = {}
       /\ DOMAIN scopes[s].type \cap DOMAIN scopes[a].type = {}

(* C19 as amended: a declaration binds a name in a scope only when, at the
   moment of the call, neither that scope nor any of its ancestors binds the
   name in that namespace; descendants are not consulted.  A scope and one of
   its ancestors therefore bind the same name only when the descendant's
   declaration came first. *)
C19_NoBinderAboveAtDeclaration ==
    [][\A s \in ScopeIds :
          /\ \A n \in ValueNames :
                (n \in DOMAIN scopes'[s].value /\ n \notin DOMAIN scopes[s].value) =>
                   \A a \in Ancestors(s) : n \notin DOMAIN scopes[a].value
          /\ \A n \in C16_TypeNames :
                (n \in DOMAIN scopes'[s].type /\ n \notin DOMAIN scopes[s].type) =>
                   \A a \in Ancestors(s) : n \notin DOMAIN scopes[a].type]_vars

\* a declaration in an ancestor has succeeded although a descendant already
\* bound the name
C19_Witness ==
    /\ last.op = "createValueSymbol"
    /\ ReturnedFrom(last)
    /\ last.name \in DOMAIN scopes[last.scope].value
    /\ \E d \in ScopeIds :
          /\ last.scope \in Ancestors(d)
          /\ last.name \in DOMAIN scopes[d].value

---------------------------------------------------------------------------
(* C20: createTypeVariable never raises the redeclaration error, also when
   type symbols named t0, t1, ... were declared through createTypeSymbol
   before; every advance of the "t" counter made by createTypeVariable comes
   with one new type symbol of that name in the scope. *)
C20_TypeVariableNeverThrows ==
    last.op = "createTypeVariable" =>
       /\ ~Threw(last)
       /\ nameIds["t"] >= 1
       /\ NameFor("t", nameIds["t"] - 1) \in DOMAIN scopes[last.scope].type
       /\ scopes[last.scope].type[NameFor("t", nameIds["t"] - 1)].type =
             InferenceRequired(NameFor("t", nameIds["t"] - 1))

====
